---- MODULE Spec2Model ----
(***************************************************************************)
(* A model of md_to_word.py: the inline formatter process_markdown_text,   *)
(* the table builder create_table, the line dispatcher of                  *)
(* convert_markdown_to_word and the command line entry point main.         *)
(*                                                                         *)
(* A Python str is modelled as a sequence of one-character strings, and    *)
(* every offset keeps Python's meaning: 0-based, slices half-open.         *)
(***************************************************************************)
EXTENDS Integers, Sequences, FiniteSets, TLC

VARIABLES
    pc,         \* the control position of the function that is running
    fs,         \* the file system, path -> what is stored there
    input,      \* process_markdown_text: the text argument as passed
    text,       \* process_markdown_text: the local `text` (reassigned at line 89)
    formats,    \* process_markdown_text: the list `formats`
    k,          \* process_markdown_text: index of the emission loop over formats
    last_end,   \* process_markdown_text: the emission cursor
    runs,       \* process_markdown_text: the runs added to the paragraph
    md_file_path,   \* convert_markdown_to_word: the first parameter
    docx_file_path, \* convert_markdown_to_word: the second parameter, <<>> for None
    lines,      \* convert_markdown_to_word: md_content.split('\n')
    i,          \* convert_markdown_to_word: the cursor of the while loop
    document,   \* convert_markdown_to_word: the blocks added to the document
    consumed,   \* convert_markdown_to_word: per iteration, the lines it covered
    argv,       \* main: sys.argv
    stdout,     \* main: what was printed
    exitcode,   \* main: the process exit status, -1 while running
    calls       \* main: number of calls of convert_markdown_to_word

vars == <<pc, fs, input, text, formats, k, last_end, runs, md_file_path,
          docx_file_path, lines, i, document, consumed, argv, stdout,
          exitcode, calls>>

inlineVars == <<input, text, formats, k, last_end, runs>>
docVars == <<md_file_path, docx_file_path, lines, i, document, consumed>>
mainVars == <<argv, stdout, exitcode, calls>>

-----------------------------------------------------------------------------
(* Strings *)

\* F(v), with v evaluated once.  The value is that of F(v); naming it this
\* way keeps TLC from evaluating the expression v again at each use of it.
Bind(v, F(_)) == CHOOSE r \in {F(x) : x \in {v}} : TRUE

Min(S) == Bind(S, LAMBDA T : CHOOSE x \in T : \A y \in T : x <= y)
Max(S) == Bind(S, LAMBDA T : CHOOSE x \in T : \A y \in T : x >= y)

\* The backtick character, which a TLA+ string literal cannot hold.
BQ == "bq"

\* s[a:b] for 0 <= a, b
Slice(s, a, b) == SubSeq(s, a + 1, IF b > Len(s) THEN Len(s) ELSE b)

\* s[a:]
SliceFrom(s, a) == SubSeq(s, a + 1, Len(s))

\* s[p], 0-based; "" past the end (no character)
At(s, p) == IF p >= 0 /\ p < Len(s) THEN s[p + 1] ELSE ""

\* s.startswith(prefix)
StartsWith(s, prefix) ==
    /\ Len(s) >= Len(prefix)
    /\ SubSeq(s, 1, Len(prefix)) = prefix

\* the characters str.strip() removes and the regex class \s matches
IsSpace(c) == c \in {" ", "\t", "\n", "\r", "\f"}

\* the regex class \d
IsDigit(c) == c \in {"0", "1", "2", "3", "4", "5", "6", "7", "8", "9"}

\* the regex `.`: any character but a newline
IsDot(c) == c # "\n" /\ c # ""

\* len(s) - len(s.lstrip())
LeadingSpaces(s0) ==
    Bind(s0, LAMBDA s :
        IF \A p \in 1..Len(s) : IsSpace(s[p]) THEN Len(s)
        ELSE Min({p \in 1..Len(s) : ~IsSpace(s[p])}) - 1)

\* s.lstrip()
LStrip(s0) == Bind(s0, LAMBDA s : SliceFrom(s, LeadingSpaces(s)))

\* s.strip()
Strip(s0) ==
    Bind(s0, LAMBDA s :
        IF \A p \in 1..Len(s) : IsSpace(s[p]) THEN <<>>
        ELSE SubSeq(s, Min({p \in 1..Len(s) : ~IsSpace(s[p])}),
                       Max({p \in 1..Len(s) : ~IsSpace(s[p])})))

\* sep.join(parts)
RECURSIVE Join(_, _)
Join(parts0, sep) ==
    Bind(parts0, LAMBDA parts :
        IF parts = <<>> THEN <<>>
        ELSE IF Len(parts) = 1 THEN parts[1]
        ELSE parts[1] \o sep \o Join(Tail(parts), sep))

\* s.split(c) for a one-character separator c
RECURSIVE Split(_, _)
Split(s0, c) ==
    Bind(s0, LAMBDA s :
        IF \A p \in 1..Len(s) : s[p] # c THEN <<s>>
        ELSE Bind(Min({p \in 1..Len(s) : s[p] = c}), LAMBDA q :
                <<SubSeq(s, 1, q - 1)>> \o Split(SubSeq(s, q + 1, Len(s)), c)))

-----------------------------------------------------------------------------
(* The regular expressions of process_markdown_text.  XEnd(t, s) is the    *)
(* end offset of the match of pattern X that starts at offset s of t, and  *)
(* 0 when the pattern does not match there (every match is longer than 0). *)
(* A lazy group (.+?) takes the least length that lets the rest match.     *)

AllDots(t, a, b) == \A p \in a..(b - 1) : IsDot(At(t, p))

\* r'\*\*(.+?)\*\*' at s: the content is t[s+2 : e-2]
StarEnd(t, s) ==
    IF At(t, s) = "*" /\ At(t, s + 1) = "*"
    THEN LET M == {m \in 1..(Len(t) - s - 4) :
                      /\ AllDots(t, s + 2, s + 2 + m)
                      /\ At(t, s + 2 + m) = "*"
                      /\ At(t, s + 3 + m) = "*"}
         IN  IF M = {} THEN 0 ELSE s + Min(M) + 4
    ELSE 0

\* bold_pattern r'(\*\*|__)(.+?)\1' at s: group 2 is t[s+2 : e-2]
BoldEnd(t, s) ==
    IF /\ At(t, s) \in {"*", "_"}
       /\ At(t, s + 1) = At(t, s)
    THEN LET M == {m \in 1..(Len(t) - s - 4) :
                      /\ AllDots(t, s + 2, s + 2 + m)
                      /\ At(t, s + 2 + m) = At(t, s)
                      /\ At(t, s + 3 + m) = At(t, s)}
         IN  IF M = {} THEN 0 ELSE s + Min(M) + 4
    ELSE 0

\* code_pattern (a backtick, (.+?), a backtick) at s: group 1 is t[s+1 : e-1]
CodeEnd(t, s) ==
    IF At(t, s) = BQ
    THEN LET M == {m \in 1..(Len(t) - s - 2) :
                      /\ AllDots(t, s + 1, s + 1 + m)
                      /\ At(t, s + 1 + m) = BQ}
         IN  IF M = {} THEN 0 ELSE s + Min(M) + 2
    ELSE 0

\* link_pattern r'\[(.+?)\]\((.+?)\)' at s: the least length m1 of group 1
\* for which some group 2 exists, then the least length m2 of group 2.
\* group 1 is t[s+1 : s+1+m1], group 2 is t[s+m1+3 : s+m1+3+m2]
LinkM2(t, s, m1) ==
    {m2 \in 1..(Len(t) - s - m1 - 4) :
        /\ AllDots(t, s + m1 + 3, s + m1 + 3 + m2)
        /\ At(t, s + m1 + 3 + m2) = ")"}

LinkM1(t, s) ==
    {m1 \in 1..(Len(t) - s - 5) :
        /\ AllDots(t, s + 1, s + 1 + m1)
        /\ At(t, s + 1 + m1) = "]"
        /\ At(t, s + 2 + m1) = "("
        /\ LinkM2(t, s, m1) # {}}

LinkEnd(t, s) ==
    IF At(t, s) = "[" /\ LinkM1(t, s) # {}
    THEN LET m1 == Min(LinkM1(t, s))
         IN  s + m1 + Min(LinkM2(t, s, m1)) + 4
    ELSE 0

PatternEnd(pattern, t, s) ==
    CASE pattern = "star" -> StarEnd(t, s)
      [] pattern = "bold" -> BoldEnd(t, s)
      [] pattern = "code" -> CodeEnd(t, s)
      [] pattern = "link" -> LinkEnd(t, s)

\* re.finditer(pattern, t): the matches <<start, end>>, left to right, each
\* search resuming where the previous match ended
RECURSIVE FindIter(_, _, _)
FindIter(pattern, t, pos) ==
    IF \A s \in pos..(Len(t) - 1) : PatternEnd(pattern, t, s) = 0 THEN <<>>
    ELSE Bind(Min({s \in pos..(Len(t) - 1) : PatternEnd(pattern, t, s) # 0}),
              LAMBDA s :
                  Bind(PatternEnd(pattern, t, s),
                       LAMBDA e : <<(<<s, e>>)>> \o FindIter(pattern, t, e)))

\* re.sub(r'\*\*(.+?)\*\*', r'\1', t)
RECURSIVE SubStarsFrom(_, _, _)
SubStarsFrom(t, ms, pos) ==
    IF ms = <<>> THEN SliceFrom(t, pos)
    ELSE Slice(t, pos, ms[1][1])
         \o Slice(t, ms[1][1] + 2, ms[1][2] - 2)
         \o SubStarsFrom(t, Tail(ms), ms[1][2])

SubStars(t0) ==
    Bind(t0, LAMBDA t :
    Bind(FindIter("star", t, 0), LAMBDA ms : SubStarsFrom(t, ms, 0)))

-----------------------------------------------------------------------------
(* process_markdown_text *)

\* The font names '宋体' and '黑体' of the source, by their Latin names.
SimSun == "SimSun"
SimHei == "SimHei"
CourierNew == "Courier New"

\* one entry of `formats`, from the match m = <<start, end>> of a pattern
\* whose delimiters are `open` characters before and `close` after the content
BoldFormat(t, m) ==
    [start |-> m[1], end |-> m[2], content |-> Slice(t, m[1] + 2, m[2] - 2),
     url |-> <<>>, type |-> "bold", original |-> Slice(t, m[1], m[2])]

CodeFormat(t, m) ==
    [start |-> m[1], end |-> m[2], content |-> Slice(t, m[1] + 1, m[2] - 1),
     url |-> <<>>, type |-> "code", original |-> Slice(t, m[1], m[2])]

LinkFormat(t, m) ==
    LET m1 == Min(LinkM1(t, m[1]))
    IN  [start |-> m[1], end |-> m[2],
         content |-> Slice(t, m[1] + 1, m[1] + 1 + m1),
         url |-> Slice(t, m[1] + m1 + 3, m[2] - 1),
         type |-> "link", original |-> Slice(t, m[1], m[2])]

MakeFormat(type, t, m) ==
    CASE type = "bold" -> BoldFormat(t, m)
      [] type = "code" -> CodeFormat(t, m)
      [] type = "link" -> LinkFormat(t, m)

\* the test of lines 117-118 and 136-137: the match m collides with fmt
Collides(m, fmt) ==
    \/ (m[1] >= fmt.start /\ m[1] < fmt.end)
    \/ (m[2] > fmt.start /\ m[2] <= fmt.end)

\* the loops of lines 113-129 and 132-149: each match, in order, is appended
\* unless it collides with an entry already in the list
RECURSIVE AcceptMatches(_, _, _, _)
AcceptMatches(acc, ms, type, t) ==
    IF ms = <<>> THEN acc
    ELSE LET is_valid == \A j \in 1..Len(acc) : ~Collides(ms[1], acc[j])
         IN  Bind(IF is_valid
                  THEN Append(acc, MakeFormat(type, t, ms[1]))
                  ELSE acc,
                  LAMBDA acc1 : AcceptMatches(acc1, Tail(ms), type, t))

\* the loop of lines 101-108: every bold match is appended
FindBold(t) ==
    Bind(FindIter("bold", t, 0),
         LAMBDA ms : [j \in 1..Len(ms) |-> BoldFormat(t, ms[j])])

FindCode(acc, t) ==
    Bind(FindIter("code", t, 0), LAMBDA ms : AcceptMatches(acc, ms, "code", t))

FindLink(acc, t) ==
    Bind(FindIter("link", t, 0), LAMBDA ms : AcceptMatches(acc, ms, "link", t))

\* formats.sort(key=lambda x: x['start']): a stable sort
RECURSIVE InsertByStart(_, _)
InsertByStart(sorted, fmt) ==
    IF sorted = <<>> THEN <<fmt>>
    ELSE IF sorted[Len(sorted)].start <= fmt.start THEN Append(sorted, fmt)
    ELSE Append(InsertByStart(SubSeq(sorted, 1, Len(sorted) - 1), fmt),
                sorted[Len(sorted)])

RECURSIVE SortByStart(_)
SortByStart(fs0) ==
    IF fs0 = <<>> THEN <<>>
    ELSE InsertByStart(SortByStart(SubSeq(fs0, 1, Len(fs0) - 1)), fs0[Len(fs0)])

\* a run as add_run makes it and lines 157-158 style it
PlainRun(s) ==
    [text |-> s, bold |-> FALSE, font |-> SimSun, underline |-> FALSE, size |-> 0]

\* lines 171-185: the run of one entry of formats
FormatRun(fmt) ==
    [text |-> fmt.content,
     bold |-> fmt.type = "bold",
     font |-> IF fmt.type = "code" THEN CourierNew ELSE SimSun,
     underline |-> fmt.type = "link",
     size |-> 0]

\* lines 164-185: one iteration of the emission loop
EmitOne(acc, t, fmt, last) ==
    (IF fmt.start > last THEN Append(acc, PlainRun(Slice(t, last, fmt.start)))
     ELSE acc) \o <<FormatRun(fmt)>>

\* lines 189-193: the text after the last entry
EmitTail(acc, t, last) ==
    IF last < Len(t) THEN Append(acc, PlainRun(SliceFrom(t, last))) ELSE acc

RECURSIVE EmitFrom(_, _, _, _, _)
EmitFrom(acc, t, fs0, j, last) ==
    IF j > Len(fs0) THEN EmitTail(acc, t, last)
    ELSE Bind(EmitOne(acc, t, fs0[j], last),
              LAMBDA acc1 : EmitFrom(acc1, t, fs0, j + 1, fs0[j].end))

\* the list formats as line 152 leaves it, for the text after line 89
SortedFormats(t) ==
    Bind(FindBold(t), LAMBDA bold :
    Bind(FindCode(bold, t), LAMBDA code :
    Bind(FindLink(code, t), LAMBDA all : SortByStart(all))))

\* process_markdown_text(paragraph, text): the runs added to the paragraph
process_markdown_text(t0) ==
    Bind(SubStars(t0), LAMBDA t :
    Bind(SortedFormats(t), LAMBDA fs0 :
        IF fs0 = <<>> THEN <<PlainRun(t)>>
        ELSE EmitFrom(<<>>, t, fs0, 1, 0)))

(* process_markdown_text, statement by statement *)

IStrip ==
    /\ pc = "strip"
    /\ text' = SubStars(input)
    /\ pc' = "find_bold"
    /\ UNCHANGED <<input, formats, k, last_end, runs>>
    /\ UNCHANGED <<fs, docVars, mainVars>>

IFindBold ==
    /\ pc = "find_bold"
    /\ formats' = FindBold(text)
    /\ pc' = "find_code"
    /\ UNCHANGED <<input, text, k, last_end, runs>>
    /\ UNCHANGED <<fs, docVars, mainVars>>

IFindCode ==
    /\ pc = "find_code"
    /\ formats' = FindCode(formats, text)
    /\ pc' = "find_link"
    /\ UNCHANGED <<input, text, k, last_end, runs>>
    /\ UNCHANGED <<fs, docVars, mainVars>>

IFindLink ==
    /\ pc = "find_link"
    /\ formats' = FindLink(formats, text)
    /\ pc' = "sort"
    /\ UNCHANGED <<input, text, k, last_end, runs>>
    /\ UNCHANGED <<fs, docVars, mainVars>>

ISort ==
    /\ pc = "sort"
    /\ formats' = SortByStart(formats)
    /\ pc' = "emit"
    /\ UNCHANGED <<input, text, k, last_end, runs>>
    /\ UNCHANGED <<fs, docVars, mainVars>>

INoFormats ==
    /\ pc = "emit"
    /\ formats = <<>>
    /\ runs' = <<PlainRun(text)>>
    /\ pc' = "returned"
    /\ UNCHANGED <<input, text, formats, k, last_end>>
    /\ UNCHANGED <<fs, docVars, mainVars>>

IEmit ==
    /\ pc = "emit"
    /\ formats # <<>>
    /\ k <= Len(formats)
    /\ runs' = EmitOne(runs, text, formats[k], last_end)
    /\ last_end' = formats[k].end
    /\ k' = k + 1
    /\ UNCHANGED <<pc, input, text, formats>>
    /\ UNCHANGED <<fs, docVars, mainVars>>

ITail ==
    /\ pc = "emit"
    /\ formats # <<>>
    /\ k > Len(formats)
    /\ runs' = EmitTail(runs, text, last_end)
    /\ pc' = "returned"
    /\ UNCHANGED <<input, text, formats, k, last_end>>
    /\ UNCHANGED <<fs, docVars, mainVars>>

\* The texts process_markdown_text is given: up to MaxTokens pieces of markup.
MaxTokens == 5

InlineTokens ==
    {<<"*", "*">>, <<"_", "_">>, <<BQ>>, <<"[">>, <<"]", "(">>, <<")">>, <<"a">>}

RECURSIVE Flatten(_)
Flatten(ss) == IF ss = <<>> THEN <<>> ELSE ss[1] \o Flatten(Tail(ss))

InlineTexts ==
    {Flatten(ts) : ts \in UNION {[1..n -> InlineTokens] : n \in 0..MaxTokens}}

NoInline ==
    /\ input = <<>>
    /\ text = <<>>
    /\ formats = <<>>
    /\ k = 1
    /\ last_end = 0
    /\ runs = <<>>

NoDoc ==
    /\ fs = <<>>
    /\ md_file_path = <<>>
    /\ docx_file_path = <<>>
    /\ lines = <<>>
    /\ i = 0
    /\ document = <<>>
    /\ consumed = <<>>

NoMain ==
    /\ argv = <<>>
    /\ stdout = <<>>
    /\ exitcode = -1
    /\ calls = 0

InitInline ==
    /\ pc = "strip"
    /\ input \in InlineTexts
    /\ text = input
    /\ formats = <<>>
    /\ k = 1
    /\ last_end = 0
    /\ runs = <<>>
    /\ NoDoc
    /\ NoMain

NextInline ==
    \/ IStrip \/ IFindBold \/ IFindCode \/ IFindLink \/ ISort
    \/ INoFormats \/ IEmit \/ ITail

SpecInline == InitInline /\ [][NextInline]_vars

-----------------------------------------------------------------------------
(* The blocks of the document *)

\* document.add_paragraph(style=style), with the paragraph_format settings
\* the branch makes (format) and the runs it adds
Paragraph(style, format, rs) ==
    [kind |-> "paragraph", level |-> 0, style |-> style, format |-> format,
     runs |-> rs, cells |-> <<>>]

\* document.add_heading(level=level) and the run of lines 241-245
HeadingBlock(level, title_text) ==
    [kind |-> "heading", level |-> level, style |-> "Heading", format |-> "",
     runs |-> <<[text |-> title_text, bold |-> TRUE, font |-> SimHei,
                 underline |-> FALSE, size |-> 29]>>,
     cells |-> <<>>]

\* document.add_table(rows, cols) with style 'Table Grid'; cells[r][c] holds
\* the runs of the first paragraph of cell (r-1, c-1)
TableBlock(cells) ==
    [kind |-> "table", level |-> 0, style |-> "Table Grid", format |-> "",
     runs |-> <<>>, cells |-> cells]

-----------------------------------------------------------------------------
(* create_table *)

\* [f(x) for x in xs]
StripAll(xs0) == Bind(xs0, LAMBDA xs : [j \in 1..Len(xs) |-> Strip(xs[j])])

\* [x for x in xs if x]
RECURSIVE NonEmpty(_)
NonEmpty(xs0) ==
    Bind(xs0, LAMBDA xs :
        IF xs = <<>> THEN <<>>
        ELSE (IF xs[1] # <<>> THEN <<xs[1]>> ELSE <<>>) \o NonEmpty(Tail(xs)))

\* re.match(r'^[\|\s\-:]+$', row)
IsSeparatorRow(row) ==
    /\ row # <<>>
    /\ \A p \in 1..Len(row) : row[p] \in {"|", "-", ":"} \/ IsSpace(row[p])

\* lines 57-59 and 68-70: the cells of one row
RowCells(row) == Bind(StripAll(Split(row, "|")), LAMBDA cells : NonEmpty(cells))

\* as TableRows, the header separator kept as a row
TableRowsKeepSeparator(markdown_table) ==
    StripAll(Split(Strip(markdown_table), "\n"))

\* lines 47-52: the rows, without the header separator
TableRows(markdown_table) ==
    Bind(StripAll(Split(Strip(markdown_table), "\n")), LAMBDA rows :
        IF Len(rows) > 1 /\ IsSeparatorRow(rows[2])
        THEN <<rows[1]>> \o SubSeq(rows, 3, Len(rows))
        ELSE rows)

\* lines 55-60
MaxCols(rows) ==
    Max({0} \cup {Len(RowCells(rows[r])) : r \in 1..Len(rows)})

\* create_table(document, markdown_table): the table added to the document
create_table(markdown_table) ==
    Bind(TableRows(markdown_table), LAMBDA rows :
    Bind(MaxCols(rows), LAMBDA max_cols :
        TableBlock([r \in 1..Len(rows) |->
            Bind(RowCells(rows[r]), LAMBDA cells :
                [c \in 1..max_cols |->
                    IF c <= Len(cells) THEN process_markdown_text(cells[c])
                    ELSE <<>>])])))

-----------------------------------------------------------------------------
(* convert_markdown_to_word: the tests of the dispatcher *)

\* lines[j], 0-based
LineAt(ls, j) == ls[j + 1]

\* lines 225-230: the number of leading '#'
HeadingLevel(line0) ==
    Bind(line0, LAMBDA line :
        IF \A p \in 1..Len(line) : line[p] = "#" THEN Len(line)
        ELSE Min({p \in 1..Len(line) : line[p] # "#"}) - 1)

\* re.match(r'^(---|\*\*\*|___)$', line)
IsRule(line) ==
    line \in {<<"-", "-", "-">>, <<"*", "*", "*">>, <<"_", "_", "_">>}

\* re.match(r'^[\*\-\+]\s', line)
IsBulletStart(line) ==
    /\ At(line, 0) \in {"*", "-", "+"}
    /\ IsSpace(At(line, 1))

\* re.match(r'^\s*[\*\-\+]\s', raw)
IsBulletLine(raw) == IsBulletStart(LStrip(raw))

\* re.match(r'^\d+\.\s', line)
IsNumberStart(line) ==
    \E n \in 1..Len(line) :
        /\ \A p \in 0..(n - 1) : IsDigit(At(line, p))
        /\ At(line, n) = "."
        /\ IsSpace(At(line, n + 1))

\* re.match(r'^\s*\d+\.\s', raw)
IsNumberLine(raw) == IsNumberStart(LStrip(raw))

Fence == <<BQ, BQ, BQ>>

\* the first index j >= from at which a collecting loop stops
TableEnd(ls, from) ==
    Min({j \in from..Len(ls) :
            j = Len(ls) \/ ~StartsWith(Strip(LineAt(ls, j)), <<"|">>)})

\* as BulletEnd, the collecting loop not entered
BulletEndStuck(ls, from) == from

BulletEnd(ls, from) ==
    Min({j \in from..Len(ls) : j = Len(ls) \/ ~IsBulletLine(LineAt(ls, j))})

NumberEnd(ls, from) ==
    Min({j \in from..Len(ls) : j = Len(ls) \/ ~IsNumberLine(LineAt(ls, j))})

FenceEnd(ls, from) ==
    Min({j \in from..Len(ls) : j = Len(ls) \/ StartsWith(LineAt(ls, j), Fence)})

QuoteEnd(ls, from) ==
    Min({j \in from..Len(ls) :
            j = Len(ls) \/ ~StartsWith(Strip(LineAt(ls, j)), <<">">>)})

\* the branch of the if/elif chain of lines 223-366 taken for lines[n]
Branch(ls, n) ==
    Bind(Strip(LineAt(ls, n)), LAMBDA line :
        IF StartsWith(line, <<"#">>) THEN "heading"
        ELSE IF IsRule(line) THEN "rule"
        ELSE IF /\ StartsWith(line, <<"|">>)
                /\ n + 1 < Len(ls)
                /\ StartsWith(Strip(LineAt(ls, n + 1)), <<"|">>) THEN "table"
        ELSE IF IsBulletStart(line) THEN "bullet"
        ELSE IF IsNumberStart(line) THEN "number"
        ELSE IF StartsWith(line, Fence) THEN "fence"
        ELSE IF StartsWith(line, <<">">>) THEN "quote"
        ELSE IF line # <<>> THEN "paragraph"
        ELSE "blank")

-----------------------------------------------------------------------------
(* convert_markdown_to_word: the blocks each branch adds *)

\* as HeadingBlocks, the level test off by one
HeadingBlocksBelowSix(line0) ==
    Bind(line0, LAMBDA line :
    Bind(HeadingLevel(line), LAMBDA level :
        IF level < 6
        THEN <<HeadingBlock(level, SubStars(Strip(SliceFrom(line, level))))>>
        ELSE <<Paragraph("", "", process_markdown_text(line))>>))

\* lines 232-249
HeadingBlocks(line0) ==
    Bind(line0, LAMBDA line :
    Bind(HeadingLevel(line), LAMBDA level :
        IF level <= 6
        THEN <<HeadingBlock(level, SubStars(Strip(SliceFrom(line, level))))>>
        ELSE <<Paragraph("", "", process_markdown_text(line))>>))

\* lines 253-255
RuleBlocks == <<Paragraph("", "rule", <<>>)>>

\* lines 260-269
TableBlocks(ls, n) ==
    Bind(TableEnd(ls, n + 1), LAMBDA j :
    Bind(<<Strip(LineAt(ls, n))>>
            \o [q \in 1..(j - n - 1) |-> Strip(LineAt(ls, n + q))],
         LAMBDA table_lines :
    Bind(Join(table_lines, <<"\n">>), LAMBDA table_md :
        <<create_table(table_md)>>)))

\* lines 277-291
BulletBlocks(ls, n) ==
    Bind(BulletEnd(ls, n), LAMBDA j :
        [q \in 1..(j - n) |->
            Bind(SliceFrom(Strip(LineAt(ls, n + q - 1)), 2), LAMBDA item_text :
                Paragraph("List Bullet", "", process_markdown_text(item_text)))])

\* lines 299-309
NumberBlocks(ls, n) ==
    Bind(NumberEnd(ls, n), LAMBDA j :
        [q \in 1..(j - n) |->
            Bind(SliceFrom(Strip(LineAt(ls, n + q - 1)), 3), LAMBDA item_text :
                Paragraph("List Number", "", process_markdown_text(item_text)))])

\* lines 317-331
FenceBlocks(ls, n) ==
    Bind(FenceEnd(ls, n + 1), LAMBDA j :
    Bind([q \in 1..(j - n - 1) |-> LineAt(ls, n + q)], LAMBDA code_lines :
        <<Paragraph("", "code",
            <<[text |-> Join(code_lines, <<"\n">>), bold |-> FALSE,
               font |-> SimSun, underline |-> FALSE, size |-> 14]>>)>>))

\* lines 339-354
QuoteBlocks(ls, n) ==
    Bind(QuoteEnd(ls, n), LAMBDA j :
    Bind([q \in 1..(j - n) |->
             Strip(SliceFrom(Strip(LineAt(ls, n + q - 1)), 1))],
         LAMBDA quote_lines :
    Bind(Join(quote_lines, <<" ">>), LAMBDA quote_text :
        <<Paragraph("", "quote", process_markdown_text(quote_text))>>)))

\* lines 361-362
ParagraphBlocks(line) ==
    Bind(line, LAMBDA l : <<Paragraph("", "", process_markdown_text(l))>>)

\* as BlankBlocks, blank lines skipped
BlankBlocksSkipped == <<>>

\* line 366
BlankBlocks == <<Paragraph("", "", <<>>)>>

-----------------------------------------------------------------------------
(* convert_markdown_to_word, statement by statement.  The file system maps *)
(* a path to what is stored there: a text file, a directory, or a saved    *)
(* document.  A path outside its domain does not exist.                    *)

TextFile(content) == [kind |-> "file", content |-> content, blocks |-> <<>>]
Directory == [kind |-> "dir", content |-> <<>>, blocks |-> <<>>]
SavedDocument(blocks) == [kind |-> "docx", content |-> <<>>, blocks |-> blocks]

\* os.path.splitext(path)[0]: the path up to its last dot, when that dot
\* lies in the last component and after a character that is not a dot
SplitextRoot(path) ==
    LET sep == Max({0} \cup {p \in 1..Len(path) : path[p] = "/"})
        dot == Max({0} \cup {p \in 1..Len(path) : path[p] = "."})
    IN  IF dot > sep /\ \E q \in (sep + 1)..(dot - 1) : path[q] # "."
        THEN SubSeq(path, 1, dot - 1)
        ELSE path

\* lines 199-200
OutputPath(md, docx) ==
    IF docx = <<>> THEN SplitextRoot(md) \o <<".", "d", "o", "c", "x">> ELSE docx

\* open(md_file_path, 'r') succeeds on a file
CanOpen(path) == path \in DOMAIN fs /\ fs[path].kind # "dir"

\* document.save(path) can create or truncate the file
CanSave(path) == path # <<>> /\ (path \in DOMAIN fs => fs[path].kind # "dir")

\* lines 199-218
DOpen ==
    /\ pc = "open"
    /\ CanOpen(md_file_path)
    /\ docx_file_path' = OutputPath(md_file_path, docx_file_path)
    /\ lines' = Split(fs[md_file_path].content, "\n")
    /\ i' = 0
    /\ document' = <<>>
    /\ pc' = "loop"
    /\ UNCHANGED <<md_file_path, consumed, fs>>
    /\ UNCHANGED <<inlineVars, mainVars>>

\* line 212 raises
DOpenRaises ==
    /\ pc = "open"
    /\ ~CanOpen(md_file_path)
    /\ docx_file_path' = OutputPath(md_file_path, docx_file_path)
    /\ pc' = "raised"
    /\ UNCHANGED <<md_file_path, lines, i, document, consumed, fs>>
    /\ UNCHANGED <<inlineVars, mainVars>>

\* one iteration of the while loop of line 219 that adds `blocks` and
\* leaves the cursor, before the i += 1 of line 368, at `last`
Iteration(branch, blocks, last) ==
    /\ pc = "loop"
    /\ i < Len(lines)
    /\ Branch(lines, i) = branch
    /\ document' = document \o blocks
    /\ i' = last + 1
    /\ consumed' = Append(consumed, <<i, last + 1>>)
    /\ UNCHANGED <<pc, md_file_path, docx_file_path, lines, fs>>
    /\ UNCHANGED <<inlineVars, mainVars>>

DHeading == Iteration("heading", HeadingBlocks(Strip(LineAt(lines, i))), i)

DRule == Iteration("rule", RuleBlocks, i)

DTable == Iteration("table", TableBlocks(lines, i), TableEnd(lines, i + 1) - 1)

DBullet == Iteration("bullet", BulletBlocks(lines, i), BulletEnd(lines, i) - 1)

DNumber == Iteration("number", NumberBlocks(lines, i), NumberEnd(lines, i) - 1)

\* as DFence, the cursor left on the closing fence as the other branches
\* leave it on their last line
DFenceStopsBeforeClose ==
    Iteration("fence", FenceBlocks(lines, i), FenceEnd(lines, i + 1) - 1)

DFence == Iteration("fence", FenceBlocks(lines, i), FenceEnd(lines, i + 1))

DQuote == Iteration("quote", QuoteBlocks(lines, i), QuoteEnd(lines, i) - 1)

DParagraph == Iteration("paragraph", ParagraphBlocks(Strip(LineAt(lines, i))), i)

DBlank == Iteration("blank", BlankBlocks, i)

\* lines 371-372
DSave ==
    /\ pc = "loop"
    /\ i >= Len(lines)
    /\ CanSave(docx_file_path)
    /\ fs' = [p \in DOMAIN fs \cup {docx_file_path} |->
                 IF p = docx_file_path THEN SavedDocument(document) ELSE fs[p]]
    /\ pc' = "saved"
    /\ UNCHANGED <<md_file_path, docx_file_path, lines, i, document, consumed>>
    /\ UNCHANGED <<inlineVars, mainVars>>

\* line 371 raises
DSaveRaises ==
    /\ pc = "loop"
    /\ i >= Len(lines)
    /\ ~CanSave(docx_file_path)
    /\ pc' = "raised"
    /\ UNCHANGED <<md_file_path, docx_file_path, lines, i, document, consumed, fs>>
    /\ UNCHANGED <<inlineVars, mainVars>>

\* The files convert_markdown_to_word is given: up to MaxPieces pieces, each
\* one line or two, joined by newlines.
MaxPieces == 3

LinePieces ==
    {<< <<>> >>,
     << <<" ">> >>,
     << <<"#", "#", "#", "#", "#", "#", " ", "*", "*", "a", "*", "*">> >>,
     << <<"#", "#", "#", "#", "#", "#", "#", " ", "a">> >>,
     << <<"-", "-", "-">> >>,
     << <<"|", " ", "A", " ", "|", " ", "B", " ", "|">> >>,
     << <<"|", "-", "-", "-", "|", "-", "-", "-", "|">> >>,
     << <<"|", " ", "1", " ", "|", " ", "2", " ", "|">> >>,
     << <<"|", "a", "|", "|", "b", "|">> >>,
     << <<" ", "-", " ", "y">> >>,
     << <<"1", ".", " ", "x">> >>,
     << Fence >>,
     << <<" ">> \o Fence >>,
     << <<"l", "i", "n", "e", "1">>, <<"l", "i", "n", "e", "2">> >>,
     << <<">", " ", "q">> >>}

FileContents ==
    {Join(Flatten(ps), <<"\n">>) :
        ps \in UNION {[1..n -> LinePieces] : n \in 1..MaxPieces}}

InputPath == <<"a", ".", "m", "d">>

InitDoc ==
    /\ pc = "open"
    /\ md_file_path = InputPath
    /\ docx_file_path = <<>>
    /\ \/ \E c \in FileContents : fs = [p \in {InputPath} |-> TextFile(c)]
       \/ fs = [p \in {InputPath} |-> Directory]
       \/ fs = [p \in {InputPath, OutputPath(InputPath, <<>>)} |->
                   IF p = InputPath THEN TextFile(<<>>) ELSE Directory]
    /\ lines = <<>>
    /\ i = 0
    /\ document = <<>>
    /\ consumed = <<>>
    /\ NoInline
    /\ NoMain

NextDoc ==
    \/ DOpen \/ DOpenRaises
    \/ DHeading \/ DRule \/ DTable \/ DBullet \/ DNumber \/ DFence \/ DQuote
    \/ DParagraph \/ DBlank
    \/ DSave \/ DSaveRaises

SpecDoc == InitDoc /\ [][NextDoc]_vars

\* The loop is sequential code: a step that can be taken is taken.
FairDoc == SpecDoc /\ WF_vars(NextDoc)

-----------------------------------------------------------------------------
(* main.  argv[1] is the program name (sys.argv[0]), argv[2] the input     *)
(* path, argv[3] the output path.                                          *)

\* os.path.exists(path)
Exists(path) == path \in DOMAIN fs

\* lines 378-380
MUsage ==
    /\ pc = "main"
    /\ Len(argv) < 2
    /\ stdout' = Append(stdout, [message |-> "usage", about |-> argv[1]])
    /\ exitcode' = 1
    /\ pc' = "exit"
    /\ UNCHANGED <<argv, calls, fs, docVars, inlineVars>>

\* as MNotFound, the sys.exit(1) of line 388 missing
MNotFoundFallsThrough ==
    /\ pc = "main"
    /\ Len(argv) >= 2
    /\ ~Exists(argv[2])
    /\ stdout' = Append(stdout, [message |-> "not found", about |-> argv[2]])
    /\ md_file_path' = argv[2]
    /\ docx_file_path' = IF Len(argv) > 2 THEN argv[3] ELSE <<>>
    /\ calls' = calls + 1
    /\ pc' = "open"
    /\ UNCHANGED <<argv, exitcode, fs, lines, i, document, consumed, inlineVars>>

\* lines 383-388
MNotFound ==
    /\ pc = "main"
    /\ Len(argv) >= 2
    /\ ~Exists(argv[2])
    /\ stdout' = Append(stdout, [message |-> "not found", about |-> argv[2]])
    /\ exitcode' = 1
    /\ pc' = "exit"
    /\ UNCHANGED <<argv, calls, fs, docVars, inlineVars>>

\* lines 383-395: the call of convert_markdown_to_word
MCall ==
    /\ pc = "main"
    /\ Len(argv) >= 2
    /\ Exists(argv[2])
    /\ md_file_path' = argv[2]
    /\ docx_file_path' = IF Len(argv) > 2 THEN argv[3] ELSE <<>>
    /\ calls' = calls + 1
    /\ pc' = "open"
    /\ UNCHANGED <<argv, stdout, exitcode, fs, lines, i, document, consumed,
                   inlineVars>>

\* lines 395-396: the call returned docx_file_path
MSuccess ==
    /\ pc = "saved"
    /\ stdout' = Append(stdout, [message |-> "saved", about |-> docx_file_path])
    /\ exitcode' = 0
    /\ pc' = "exit"
    /\ UNCHANGED <<argv, calls, fs, docVars, inlineVars>>

\* lines 397-399: the call raised
MExcept ==
    /\ pc = "raised"
    /\ stdout' = Append(stdout, [message |-> "failed", about |-> <<>>])
    /\ exitcode' = 1
    /\ pc' = "exit"
    /\ UNCHANGED <<argv, calls, fs, docVars, inlineVars>>

\* The command lines: up to MaxArgs arguments after the program name.
MaxArgs == 2

PathChoices == {InputPath, <<"o">>}

\* a file with a block of every kind
SampleFile ==
    Join(<< <<"#", " ", "a">>,
            <<"-", "-", "-">>,
            <<"|", " ", "A", " ", "|">>,
            <<"|", "-", "|">>,
            <<"-", " ", "x">>,
            <<"1", ".", " ", "x">>,
            Fence,
            <<"c">>,
            Fence,
            <<">", " ", "q">>,
            <<"p">>,
            <<>> >>, <<"\n">>)

StoredChoices == {TextFile(SampleFile), Directory}

FileSystems ==
    UNION {[D -> StoredChoices] :
              D \in SUBSET (PathChoices \cup {OutputPath(InputPath, <<>>)})}

InitMain ==
    /\ pc = "main"
    /\ \E n \in 0..MaxArgs : \E args \in [1..n -> PathChoices \cup {<<>>}] :
           argv = <<<<"m", "d", "_", "t", "o", "_", "w", "o", "r", "d", ".", "p", "y">>>>
                     \o args
    /\ fs \in FileSystems
    /\ stdout = <<>>
    /\ exitcode = -1
    /\ calls = 0
    /\ md_file_path = <<>>
    /\ docx_file_path = <<>>
    /\ lines = <<>>
    /\ i = 0
    /\ document = <<>>
    /\ consumed = <<>>
    /\ NoInline

NextMain ==
    \/ MUsage \/ MNotFound \/ MCall \/ MSuccess \/ MExcept
    \/ DOpen \/ DOpenRaises
    \/ DHeading \/ DRule \/ DTable \/ DBullet \/ DNumber \/ DFence \/ DQuote
    \/ DParagraph \/ DBlank
    \/ DSave \/ DSaveRaises

SpecMain == InitMain /\ [][NextMain]_vars

-----------------------------------------------------------------------------
(* Properties of process_markdown_text, under SpecInline *)

\* C1: no two accepted inline matches have intersecting character ranges,
\* the case of one range containing the other included.
C1_AcceptedMatchesDisjoint ==
    \A a, b \in 1..Len(formats) :
        a # b => \/ formats[a].end <= formats[b].start
                 \/ formats[b].end <= formats[a].start

\* the text t from offset pos on, each accepted match replaced by its content
RECURSIVE Replaced(_, _, _)
Replaced(t, fs0, pos) ==
    IF pos >= Len(t) THEN <<>>
    ELSE IF \E j \in 1..Len(fs0) : fs0[j].start = pos
    THEN LET j == Min({q \in 1..Len(fs0) : fs0[q].start = pos})
         IN  fs0[j].content \o Replaced(t, fs0, fs0[j].end)
    ELSE <<t[pos + 1]>> \o Replaced(t, fs0, pos + 1)

RunTexts(rs) == Flatten([j \in 1..Len(rs) |-> rs[j].text])

\* C2: the run texts, concatenated in emission order, are the text with each
\* accepted match replaced by its content, nothing twice and nothing left
\* out, and the emission cursor last_end never moves backwards.  (The text
\* is taken as the emission loop reads it, after line 89.)
C2_RunsReconstructText ==
    /\ (pc = "emit" /\ formats # <<>> /\ k <= Len(formats))
           => formats[k].end >= last_end
    /\ pc = "returned" => RunTexts(runs) = Replaced(text, formats, 0)

CountOf(t, c) == Cardinality({p \in 1..Len(t) : t[p] = c})

\* C3: a **bold** marker pair in the text given yields a run whose text is
\* the content of the pair and whose bold flag is set, and the asterisks of
\* the pair appear in no run.
C3_StarPairYieldsBoldRun ==
    pc = "returned" =>
        LET ms == FindIter("star", input, 0)
        IN  /\ \A j \in 1..Len(ms) :
                   \E r \in 1..Len(runs) :
                       /\ runs[r].bold
                       /\ runs[r].text = Slice(input, ms[j][1] + 2, ms[j][2] - 2)
            /\ (ms # <<>> /\ CountOf(input, "*") = 4 * Len(ms))
                   => \A r \in 1..Len(runs) : CountOf(runs[r].text, "*") = 0

-----------------------------------------------------------------------------
(* Properties of the dispatcher, under SpecDoc *)

\* the loop is about to classify lines[i]
AtLine == pc = "loop" /\ i < Len(lines)

\* the step added exactly one block, B, to the end of the document
AddedOne(B(_)) ==
    /\ Len(document') = Len(document) + 1
    /\ SubSeq(document', 1, Len(document)) = document
    /\ B(document'[Len(document')])

\* the number of leading '#' of a line
LeadingHashes(line) ==
    CHOOSE n \in 0..Len(line) :
        /\ \A p \in 1..n : line[p] = "#"
        /\ n = Len(line) \/ line[n + 1] # "#"

C4_IsHeading(b) ==
    LET line == Strip(LineAt(lines, i))
        n == LeadingHashes(line)
    IN  /\ b.kind = "heading"
        /\ b.level = n
        /\ Len(b.runs) = 1
        /\ b.runs[1].text = SubStars(Strip(SliceFrom(line, n)))

C4_IsParagraph(b) ==
    /\ b.kind = "paragraph"
    /\ b.style = ""
    /\ b.format = ""
    /\ b.runs = process_markdown_text(Strip(LineAt(lines, i)))

\* C4: a line whose trimmed form begins with exactly n '#' yields exactly one
\* heading of level n (text: the remainder trimmed, ** markers stripped) when
\* 1 <= n <= 6, and exactly one ordinary paragraph of the whole line when
\* n >= 7; one line is consumed.
C4_HeadingLevels ==
    [][(AtLine /\ LeadingHashes(Strip(LineAt(lines, i))) >= 1) =>
          /\ i' = i + 1
          /\ LeadingHashes(Strip(LineAt(lines, i))) <= 6 => AddedOne(C4_IsHeading)
          /\ LeadingHashes(Strip(LineAt(lines, i))) >= 7 => AddedOne(C4_IsParagraph)
      ]_vars

C4_Witness ==
    /\ Len(document) >= 2
    /\ \E a, b \in 1..Len(document) :
        /\ document[a].kind = "heading"
        /\ document[a].level = 6
        /\ document[a].runs[1].text = <<"a">>
        /\ document[b].kind = "paragraph"
        /\ document[b].runs # <<>>
        /\ document[b].runs[1].text
              = <<"#", "#", "#", "#", "#", "#", "#", " ", "a">>

\* the trimmed form of lines[n] starts with a pipe
PipeLine(ls, n) == n < Len(ls) /\ StartsWith(Strip(LineAt(ls, n)), <<"|">>)

\* the number of contiguous pipe lines from lines[n] on
PipeRun(ls, n) ==
    CHOOSE c \in 0..(Len(ls) - n) :
        /\ \A q \in 0..(c - 1) : PipeLine(ls, n + q)
        /\ ~PipeLine(ls, n + c)

\* pipes, dashes, colons and whitespace only
OnlySeparatorCharacters(row) ==
    \A p \in 1..Len(row) : row[p] \in {"|", "-", ":", " ", "\t", "\n", "\r", "\f"}

\* the lines of the table block at lines[n] that become rows, trimmed
TableSource(ls, n) ==
    LET c == PipeRun(ls, n)
        sep == OnlySeparatorCharacters(Strip(LineAt(ls, n + 1)))
    IN  [q \in 1..(IF sep THEN c - 1 ELSE c) |->
            Strip(LineAt(ls, IF sep /\ q >= 2 THEN n + q ELSE n + q - 1))]

ExampleLines ==
    << <<"|", " ", "A", " ", "|", " ", "B", " ", "|">>,
       <<"|", "-", "-", "-", "|", "-", "-", "-", "|">>,
       <<"|", " ", "1", " ", "|", " ", "2", " ", "|">> >>

ExampleCells ==
    << << <<PlainRun(<<"A">>)>>, <<PlainRun(<<"B">>)>> >>,
       << <<PlainRun(<<"1">>)>>, <<PlainRun(<<"2">>)>> >> >>

C5_IsTable(b) ==
    LET src == TableSource(lines, i)
    IN  /\ b.kind = "table"
        /\ Len(b.cells) = Len(src)
        /\ \A r \in 1..Len(src) :
               \A c \in 1..Len(RowCells(src[r])) :
                   /\ c <= Len(b.cells[r])
                   /\ b.cells[r][c] = process_markdown_text(RowCells(src[r])[c])
        /\ (PipeRun(lines, i) = 3 /\ SubSeq(lines, i + 1, i + 3) = ExampleLines)
               => b.cells = ExampleCells

\* C5: a block of n >= 2 contiguous pipe lines yields one table; when its
\* second line holds only pipes, dashes, colons and whitespace that line is
\* dropped and the table has n-1 rows, header first and the data rows in
\* source order, else n rows; the example yields the 2x2 table A,B / 1,2;
\* the dispatcher resumes at the first line after the block.
C5_TableRows ==
    [][(AtLine /\ PipeLine(lines, i) /\ PipeLine(lines, i + 1)) =>
          /\ i' = i + PipeRun(lines, i)
          /\ AddedOne(C5_IsTable)
      ]_vars

C5_Witness ==
    /\ pc = "loop"
    /\ lines = ExampleLines
    /\ i = 3
    /\ Len(document) = 1
    /\ document[1].kind = "table"
    /\ document[1].cells = ExampleCells

\* the index of the next line after lines[n] that starts with a fence, or
\* Len(ls) when there is none
NextFence(ls, n) ==
    CHOOSE j \in (n + 1)..Len(ls) :
        /\ j < Len(ls) => StartsWith(LineAt(ls, j), Fence)
        /\ \A q \in (n + 1)..(j - 1) : ~StartsWith(LineAt(ls, q), Fence)

Line1Line2 ==
    <<"l", "i", "n", "e", "1", "\n", "l", "i", "n", "e", "2">>

C6_IsCodeBlock(b) ==
    LET j == NextFence(lines, i)
    IN  /\ b.kind = "paragraph"
        /\ b.format = "code"
        /\ Len(b.runs) = 1
        /\ b.runs[1].text
              = Join([q \in 1..(j - i - 1) |-> LineAt(lines, i + q)], <<"\n">>)
        /\ (j = i + 3
              /\ LineAt(lines, i + 1) = <<"l", "i", "n", "e", "1">>
              /\ LineAt(lines, i + 2) = <<"l", "i", "n", "e", "2">>)
               => b.runs[1].text = Line1Line2

\* C6: at an opening fence lines[i] with the next fence line at j, exactly
\* one code paragraph is added, its text lines i+1..j-1 joined by newlines;
\* no fence line yields a block and dispatching resumes at j+1.
C6_FencedBlock ==
    [][(AtLine /\ StartsWith(Strip(LineAt(lines, i)), Fence)
              /\ NextFence(lines, i) < Len(lines)) =>
          /\ i' = NextFence(lines, i) + 1
          /\ AddedOne(C6_IsCodeBlock)
      ]_vars

C6_Witness ==
    /\ pc = "loop"
    /\ Len(lines) = 4
    /\ lines[1] = Fence
    /\ lines[4] = Fence
    /\ i = 4
    /\ Len(document) = 1
    /\ document[1].format = "code"
    /\ document[1].runs[1].text = Line1Line2

IsBlank(line) == Strip(line) = <<>>

C7_IsEmptyParagraph(b) ==
    /\ b.kind = "paragraph"
    /\ b.runs = <<>>
    /\ b.format = ""
    /\ b.style = ""

\* C7: a blank line the dispatcher classifies yields exactly one empty
\* paragraph and consumes that line only, and no block but a fenced code
\* block takes a blank line in: a blank line ends a list, a table, a quote.
C7_BlankLines ==
    [][AtLine =>
          /\ IsBlank(LineAt(lines, i)) =>
                 (i' = i + 1 /\ AddedOne(C7_IsEmptyParagraph))
          /\ ~StartsWith(Strip(LineAt(lines, i)), Fence) =>
                 \A q \in (i + 1)..(i' - 1) : ~IsBlank(LineAt(lines, q))
      ]_vars

C7_Witness ==
    /\ pc = "loop"
    /\ Len(lines) = 3
    /\ ~IsBlank(lines[1])
    /\ Branch(lines, 0) \in {"bullet", "number", "quote"}
    /\ IsBlank(lines[2])
    /\ IsBlank(lines[3])
    /\ i = 3
    /\ Len(document) = 3
    /\ C7_IsEmptyParagraph(document[2])
    /\ C7_IsEmptyParagraph(document[3])

\* the fields of a row, trimmed, without the empty first and the empty last
EnclosedFields(row) ==
    LET f == StripAll(Split(row, "|"))
        a == IF Len(f) >= 1 /\ f[1] = <<>> THEN 2 ELSE 1
        b == IF Len(f) >= a /\ f[Len(f)] = <<>> THEN Len(f) - 1 ELSE Len(f)
    IN  SubSeq(f, a, b)

C9_IsTable(b) ==
    LET src == TableSource(lines, i)
        cols == Max({0} \cup {Len(EnclosedFields(src[r])) : r \in 1..Len(src)})
    IN  /\ b.kind = "table"
        /\ Len(b.cells) = Len(src)
        /\ \A r \in 1..Len(src) :
               /\ Len(b.cells[r]) = cols
               /\ \A c \in 1..cols :
                      b.cells[r][c] =
                          IF c <= Len(EnclosedFields(src[r]))
                             /\ EnclosedFields(src[r])[c] # <<>>
                          THEN process_markdown_text(EnclosedFields(src[r])[c])
                          ELSE <<>>

\* C9: the cells of a row are its fields between pipes, trimmed, only the
\* empty first and last removed; the k-th is written to column k, an empty
\* interior field stays a blank cell in its column, the column count is the
\* largest cell count and shorter rows leave their last cells blank.
C9_CellsKeepColumns ==
    [][(AtLine /\ PipeLine(lines, i) /\ PipeLine(lines, i + 1)) =>
          AddedOne(C9_IsTable)
      ]_vars

\* the iterations cover the lines in order, each line once
CoversLines ==
    /\ consumed # <<>>
    /\ consumed[1][1] = 0
    /\ \A n \in 1..Len(consumed) : consumed[n][2] > consumed[n][1]
    /\ \A n \in 1..(Len(consumed) - 1) : consumed[n + 1][1] = consumed[n][2]
    /\ consumed[Len(consumed)][2] >= Len(lines)
    /\ \A q \in 0..(Len(lines) - 1) :
           Cardinality({n \in 1..Len(consumed) :
                           consumed[n][1] <= q /\ q < consumed[n][2]}) = 1

\* C10 (under FairDoc): the loop ends and document.save is reached; the
\* cursor i grows in every iteration; every line is covered by exactly one
\* iteration; blocks are only ever appended.
C10_LoopTerminates ==
    /\ [][(pc = "loop" /\ pc' = "loop") =>
             /\ i' > i
             /\ Len(document') >= Len(document)
             /\ SubSeq(document', 1, Len(document)) = document]_vars
    /\ [](pc = "saved" => CoversLines)
    /\ (pc = "loop") ~> (pc \in {"saved", "raised"})

C10_Witness ==
    /\ pc = "saved"
    /\ Len(consumed) >= 2
    /\ \E n \in 1..Len(consumed) : consumed[n][2] >= consumed[n][1] + 2
    /\ consumed[Len(consumed)][2] > Len(lines)

-----------------------------------------------------------------------------
(* Properties of main, under SpecMain *)

NoInputFile == Len(argv) < 2 \/ ~Exists(argv[2])

\* C8: with an input path that does not exist (or none given), main prints
\* an error (naming the path), exits with code 1, never calls
\* convert_markdown_to_word, and no file is created or modified.
C8_MissingInput ==
    /\ [](NoInputFile =>
             /\ calls = 0
             /\ pc = "exit" =>
                    /\ exitcode = 1
                    /\ Len(stdout) = 1
                    /\ Len(argv) >= 2 =>
                           stdout[1] = [message |-> "not found", about |-> argv[2]])
    /\ [][NoInputFile => fs' = fs]_vars

C8_Witness ==
    /\ pc = "exit"
    /\ Len(argv) >= 2
    /\ ~Exists(argv[2])
    /\ fs # <<>>
    /\ exitcode = 1

====
